---- MODULE Spec2Model ----
(***************************************************************************)
(* Model of the homebridge-sinum dynamic platform (src/src/index.ts):      *)
(* the tracked accessory list, the host's registrations, the               *)
(* reconciliation pass run on DID_FINISH_LAUNCHING (removeAccessories then *)
(* getDevices) and the toggle path (SET handler, toggleLight, signIn).     *)
(*                                                                         *)
(* Every action is one synchronous run of JavaScript: from an event or a   *)
(* resumed await up to the next await. A remote request is issued in one   *)
(* action and answered in a later one.                                     *)
(***************************************************************************)
EXTENDS Naturals, Sequences, FiniteSets

VARIABLES
    strictHost,   \* does the host throw on a duplicate UUID / an unknown accessory
    remote,       \* the wtp devices the remote API lists, in its order
    cache,        \* cached accessories the host has still to restore
    accessories,  \* this.accessories
    registered,   \* accessories the host holds for this plugin
    passes,       \* one record per DID_FINISH_LAUNCHING handler run
    toggles       \* one record per SET event

vars == <<strictHost, remote, cache, accessories, registered, passes, toggles>>

\* ---------------------------------------------------------------- bounds
MaxDevices == 3
MaxCached == 1
MaxPasses == 2
MaxToggles == 2
\* device lists of at most this length are explored with MaxToggles SET events,
\* longer ones with one SET event less
MaxToggledDevices == 1

Names == {"Lamp", "Desk"}
Ids == 1..MaxDevices

\* ---------------------------------------------------------------- values
\* the JavaScript value undefined
undefined == [undefined |-> TRUE]
NoError == "no-error"

Range(s) == {s[i] : i \in 1..Len(s)}

SeqsUpTo(S, n) == UNION {[1..k -> S] : k \in 0..n}

RemoteDevice == [id : Ids, name : Names]

\* the remote API assigns every device its own id
DeviceSeqs ==
    {D \in SeqsUpTo(RemoteDevice, MaxDevices) :
        \A i, j \in 1..Len(D) : i # j => D[i].id # D[j].id}

\* hap.uuid.generate: a deterministic digest of its argument
generate(name) == <<"uuid", name>>

\* variant: the uuid is drawn per object instead of derived from the name
NewAccessoryFreshUuid(name, id, obj) ==
    [displayName |-> name, UUID |-> <<"uuid", obj>>,
     context |-> [id |-> id], obj |-> obj]

\* new Accessory(name, uuid) with context = { id }; obj is the object's identity
NewAccessory(name, id, obj) ==
    [displayName |-> name, UUID |-> generate(name),
     context |-> [id |-> id], obj |-> obj]

\* what the host restores from disk: accessories of an earlier run. The host
\* holds no two accessories with the same UUID after a restart.
CachedSeqs ==
    {[i \in 1..Len(D) |-> NewAccessory(D[i].name, D[i].id, <<0, i>>)] :
        D \in {E \in SeqsUpTo(RemoteDevice, MaxCached) :
                 \A i, j \in 1..Len(E) : i # j => E[i].name # E[j].name}}

\* ------------------------------------------------------------ remote API
Outcomes == {"ok", "http", "network"}

\* the credential the login endpoint returns for one login request
Credential(req) == <<"session", req>>

\* body.data of a successful POST /login
LoginData(req) == [session |-> Credential(req)]

\* ------------------------------------------------------------ host calls
\* api.registerPlatformAccessories(..., [acc]): held' and whether it threw
HostRegister(held, acc) ==
    IF strictHost /\ \E h \in held : h.UUID = acc.UUID
    THEN [held |-> held, threw |-> TRUE]
    ELSE [held |-> held \cup {acc}, threw |-> FALSE]

\* api.unregisterPlatformAccessories(..., list): held' and whether it threw
HostUnregister(held, list) ==
    [held |-> held \ Range(list),
     threw |-> strictHost /\ \E i \in 1..Len(list) : list[i] \notin held]

\* ------------------------------------------------------- platform methods
\* variant: unshift instead of push
configureAccessoryUnshift(list, accessory) == <<accessory>> \o list

\* configureAccessory: attach the handlers, then this.accessories.push(accessory)
configureAccessory(list, accessory) == Append(list, accessory)

\* addAccessory(name, id) on st = [accessories, held, regCalls, threw]
addAccessory(st, name, id, obj) ==
    LET accessory == NewAccessory(name, id, obj)
        r == HostRegister(st.held, accessory)
    IN  [accessories |-> configureAccessory(st.accessories, accessory),
         held |-> r.held,
         regCalls |-> Append(st.regCalls, accessory),
         threw |-> r.threw]

\* variant: the loop stops one element early
RECURSIVE forEachDeviceShort(_, _, _, _)
forEachDeviceShort(wtp, i, p, st) ==
    IF i >= Len(wtp) \/ st.threw
    THEN st
    ELSE forEachDeviceShort(wtp, i + 1, p,
                            addAccessory(st, wtp[i].name, wtp[i].id, <<p, i>>))

\* data.data.wtp.forEach(element => this.addAccessory(element.name, element.id));
\* an exception of addAccessory leaves the loop
RECURSIVE forEachDevice(_, _, _, _)
forEachDevice(wtp, i, p, st) ==
    IF i > Len(wtp) \/ st.threw
    THEN st
    ELSE forEachDevice(wtp, i + 1, p,
                       addAccessory(st, wtp[i].name, wtp[i].id, <<p, i>>))

\* variant: the array is not cleared
removeAccessoriesNoSplice(list, held) ==
    [unreg |-> list, held |-> held \ Range(list), threw |-> FALSE,
     accessories |-> list]

\* variant: the array is cleared before it is handed to the host
removeAccessoriesSpliceFirst(list, held) ==
    [unreg |-> <<>>, held |-> held, threw |-> FALSE, accessories |-> <<>>]

\* removeAccessories: unregister this.accessories, then splice(0, length)
removeAccessories(list, held) ==
    LET r == HostUnregister(held, list)
    IN  [unreg |-> list,
         held |-> r.held,
         threw |-> r.threw,
         accessories |-> IF r.threw THEN list ELSE <<>>]

\* variant: a failed login yields an object without a session
signInEmptyObject(req, outcome) ==
    IF outcome = "ok" THEN LoginData(req) ELSE [session |-> undefined]

\* signIn: data.data of the login response, undefined when the request failed
signIn(req, outcome) == IF outcome = "ok" THEN LoginData(req) ELSE undefined

\* the catch blocks of signIn and getDevices log only an error with a response
CatchLog(outcome) == IF outcome = "http" THEN <<"response">> ELSE <<>>

\* const { session } = user: a TypeError when user is undefined
CanDestructure(user) == user # undefined

\* variant: a session obtained by the first pass is kept and reused
AuthorizationCached(user) ==
    IF passes # <<>> /\ passes[1].gets # <<>>
    THEN passes[1].gets[1].auth
    ELSE user.session

\* the Authorization header of the request that follows a task's own signIn
Authorization(user) == user.session

\* variant: the request is sent again when it was sent once
axiosPatchAgain(sent, request) == Append(Append(sent, request), request)

\* await axios.patch(url, { state }, { headers }): one PATCH request is sent
axiosPatch(sent, request) == Append(sent, request)

\* variant: callback is chained behind the promise of toggleLight
SetCallbackDeferred(calls) == calls

\* the SET handler calls callback() right after toggleLight(...) has returned
\* its promise
SetCallback(calls) == Append(calls, NoError)

\* --------------------------------------------------------------- initial
Init ==
    /\ strictHost \in BOOLEAN
    /\ remote \in DeviceSeqs
    /\ cache \in CachedSeqs
    /\ accessories = <<>>
    /\ registered = Range(cache)
    /\ passes = <<>>
    /\ toggles = <<>>

\* how many SET events a behaviour is explored with
ToggleLimit ==
    IF Len(remote) <= MaxToggledDevices THEN MaxToggles ELSE MaxToggles - 1

\* a pass is awaiting the answer to its login or its listing request
PassInFlight ==
    \E p \in 1..Len(passes) : passes[p].pc \in {"login", "listing"}

\* ------------------------------------------------------------------ host
\* the host restores the next cached accessory through configureAccessory
RestoreCached ==
    /\ cache # <<>>
    /\ accessories' = configureAccessory(accessories, Head(cache))
    /\ cache' = Tail(cache)
    /\ UNCHANGED <<strictHost, remote, registered, passes, toggles>>

\* --------------------------------------------------- reconciliation pass
\* the DID_FINISH_LAUNCHING handler: removeAccessories(), then getDevices()
\* up to its first await, where signIn has issued POST /login
Launch ==
    /\ cache = <<>>
    /\ Len(passes) < MaxPasses
    /\ LET r == removeAccessories(accessories, registered)
       IN  /\ accessories' = r.accessories
           /\ registered' = r.held
           /\ passes' = Append(passes,
                  [pc |-> IF r.threw THEN "clearFailed" ELSE "login",
                   overlaps |-> PassInFlight,
                   unreg |-> r.unreg,
                   logins |-> IF r.threw THEN 0 ELSE 1,
                   login |-> "none",
                   gets |-> <<>>,
                   list |-> "none",
                   regCalls |-> <<>>,
                   result |-> <<>>,
                   console |-> <<>>])
    /\ UNCHANGED <<strictHost, remote, cache, toggles>>

\* the host fires DID_FINISH_LAUNCHING once per activation: the handler runs
\* when no earlier pass is awaiting a response
DidFinishLaunching == ~PassInFlight /\ Launch

\* the handler run again while an earlier pass still awaits its login or its
\* listing response (nothing in the plugin prevents it)
DidFinishLaunchingInFlight == PassInFlight /\ Launch

\* the login of pass p is answered: getDevices resumes after await signIn()
PassLoginResponse(p, outcome) ==
    /\ p \in 1..Len(passes)
    /\ LET user == signIn(<<"pass", p>>, outcome)
       IN  /\ passes[p].pc = "login"
           /\ passes' = [passes EXCEPT ![p] =
                  IF CanDestructure(user)
                  THEN [@ EXCEPT !.pc = "listing",
                                 !.login = outcome,
                                 !.gets = Append(@, [auth |-> Authorization(user)]),
                                 !.console = @ \o CatchLog(outcome)]
                  ELSE [@ EXCEPT !.pc = "rejected",
                                 !.login = outcome,
                                 !.console = @ \o CatchLog(outcome)]]
    /\ UNCHANGED <<strictHost, remote, cache, accessories, registered, toggles>>

\* GET /devices is answered: the forEach over data.data.wtp, or the catch
PassListResponse(p, outcome) ==
    /\ p \in 1..Len(passes)
    /\ LET st == forEachDevice(remote, 1, p,
                     [accessories |-> accessories, held |-> registered,
                      regCalls |-> <<>>, threw |-> FALSE])
       IN  /\ passes[p].pc = "listing"
           /\ IF outcome = "ok"
              THEN /\ accessories' = st.accessories
                   /\ registered' = st.held
                   /\ passes' = [passes EXCEPT ![p] =
                          [@ EXCEPT !.pc = "done", !.list = outcome,
                                    !.regCalls = st.regCalls,
                                    !.result = st.accessories]]
              ELSE /\ passes' = [passes EXCEPT ![p] =
                          [@ EXCEPT !.pc = "listFailed", !.list = outcome,
                                    !.console = @ \o CatchLog(outcome)]]
                   /\ UNCHANGED <<accessories, registered>>
    /\ UNCHANGED <<strictHost, remote, cache, toggles>>

\* ---------------------------------------------------------------- toggle
\* variant: the SET handler runs configureAccessory on the accessory again
SetEventReconfigure(accessory, value) ==
    /\ passes # <<>>
    /\ Len(toggles) < ToggleLimit
    /\ accessory \in Range(accessories) \cap registered
    /\ accessories' = Append(accessories, accessory)
    /\ toggles' = Append(toggles,
           [accessory |-> accessory,
            value |-> value,
            pc |-> "login",
            logins |-> 1,
            login |-> "none",
            patches |-> <<>>,
            patch |-> "none",
            callbacks |-> <<NoError>>,
            console |-> <<>>])
    /\ UNCHANGED <<strictHost, remote, cache, registered, passes>>

\* a SET event on the On characteristic of an accessory the host presents:
\* toggleLight runs up to its await (POST /login issued), then callback()
SetEvent(accessory, value) ==
    /\ passes # <<>>
    /\ Len(toggles) < ToggleLimit
    /\ accessory \in Range(accessories) \cap registered
    /\ toggles' = Append(toggles,
           [accessory |-> accessory,
            value |-> value,
            pc |-> "login",
            logins |-> 1,
            login |-> "none",
            patches |-> <<>>,
            patch |-> "none",
            callbacks |-> SetCallback(<<>>),
            console |-> <<>>])
    /\ UNCHANGED <<strictHost, remote, cache, accessories, registered, passes>>

\* the login of toggle t is answered: toggleLight resumes after await signIn()
ToggleLoginResponse(t, outcome) ==
    /\ t \in 1..Len(toggles)
    /\ toggles[t].pc = "login"
    /\ LET user == signIn(<<"toggle", t>>, outcome)
       IN  toggles' = [toggles EXCEPT ![t] =
               IF CanDestructure(user)
               THEN [@ EXCEPT !.pc = "patch",
                              !.login = outcome,
                              !.patches = axiosPatch(@,
                                  [id |-> toggles[t].accessory.context.id,
                                   state |-> toggles[t].value,
                                   auth |-> Authorization(user)]),
                              !.console = @ \o CatchLog(outcome) \o <<"session">>]
               ELSE [@ EXCEPT !.pc = "rejected",
                              !.login = outcome,
                              !.console = @ \o CatchLog(outcome)]]
    /\ UNCHANGED <<strictHost, remote, cache, accessories, registered, passes>>

\* variant: after a failed PATCH the toggle waits for something that never comes
TogglePatchResponseHang(t, outcome) ==
    /\ t \in 1..Len(toggles)
    /\ toggles[t].pc = "patch"
    /\ toggles' = [toggles EXCEPT ![t] =
           [@ EXCEPT !.pc = IF outcome = "ok" THEN "done" ELSE "waiting",
                     !.patch = outcome]]
    /\ UNCHANGED <<strictHost, remote, cache, accessories, registered, passes>>

\* PATCH /devices/wtp/{id} of toggle t is answered: console.log or the catch
TogglePatchResponse(t, outcome) ==
    /\ t \in 1..Len(toggles)
    /\ toggles[t].pc = "patch"
    /\ toggles' = [toggles EXCEPT ![t] =
           [@ EXCEPT !.pc = "done",
                     !.patch = outcome,
                     !.console = Append(@, IF outcome = "ok" THEN "data" ELSE "error")]]
    /\ UNCHANGED <<strictHost, remote, cache, accessories, registered, passes>>

Next ==
    \/ RestoreCached
    \/ DidFinishLaunching
    \/ \E p \in 1..MaxPasses, outcome \in Outcomes : PassLoginResponse(p, outcome)
    \/ \E p \in 1..MaxPasses, outcome \in Outcomes : PassListResponse(p, outcome)
    \/ \E accessory \in Range(accessories), value \in BOOLEAN :
           SetEvent(accessory, value)
    \/ \E t \in 1..MaxToggles, outcome \in Outcomes : ToggleLoginResponse(t, outcome)
    \/ \E t \in 1..MaxToggles, outcome \in Outcomes : TogglePatchResponse(t, outcome)

Spec == Init /\ [][Next]_vars

\* once issued, a remote call runs to completion or failure: every request that
\* awaits its response is answered
Answered ==
    /\ \A p \in 1..MaxPasses :
           /\ WF_vars(\E outcome \in Outcomes : PassLoginResponse(p, outcome))
           /\ WF_vars(\E outcome \in Outcomes : PassListResponse(p, outcome))
    /\ \A t \in 1..MaxToggles :
           /\ WF_vars(\E outcome \in Outcomes : ToggleLoginResponse(t, outcome))
           /\ WF_vars(\E outcome \in Outcomes : TogglePatchResponse(t, outcome))

\* the liveness check draws the listings and the caches whose i-th id is i: no
\* step of a pass or of a toggle reads an id
InitAnswered ==
    /\ Init
    /\ \A i \in 1..Len(remote) : remote[i].id = i
    /\ \A i \in 1..Len(cache) : cache[i].context.id = i

SpecAnswered == InitAnswered /\ [][Next]_vars /\ Answered

\* the same platform with a host that may fire the handler during a pass
NextInFlight == Next \/ DidFinishLaunchingInFlight

SpecInFlight == Init /\ [][NextInFlight]_vars

TypeOK ==
    /\ strictHost \in BOOLEAN
    /\ Len(passes) <= MaxPasses
    /\ Len(toggles) <= MaxToggles
    /\ \A i \in 1..Len(passes) :
           passes[i].pc \in {"clearFailed", "login", "rejected", "listing",
                             "listFailed", "done"}
    /\ \A t \in 1..Len(toggles) :
           toggles[t].pc \in {"login", "rejected", "patch", "done"}

\* ================================================================ claims
LastPass == passes[Len(passes)]

Failed == {"http", "network"}

\* what the spec calls the contents of a tracked accessory
Contents(list) ==
    [i \in 1..Len(list) |->
        <<list[i].displayName, list[i].UUID, list[i].context.id>>]

TrackedIds == [i \in 1..Len(accessories) |-> accessories[i].context.id]

RemoteIds == [i \in 1..Len(remote) |-> remote[i].id]

DistinctNames ==
    \A i, j \in 1..Len(remote) : i # j => remote[i].name # remote[j].name

\* the latest pass has listed the devices and run its forEach
Repopulated == passes # <<>> /\ LastPass.pc = "done"

\* C1 as stated: after a pass whose login and listing succeed, the tracked list
\* has |D| entries, their context.id values are the ids of D in order, and |D|
\* registration calls were made, for every device sequence D.
C1_Original ==
    Repopulated =>
        /\ Len(accessories) = Len(remote)
        /\ TrackedIds = RemoteIds
        /\ Len(LastPass.regCalls) = Len(remote)

\* C1 amended: the same for every device sequence D whose names are pairwise
\* distinct.
C1_DistinctNames ==
    (Repopulated /\ DistinctNames) =>
        /\ Len(accessories) = Len(remote)
        /\ TrackedIds = RemoteIds
        /\ Len(LastPass.regCalls) = Len(remote)

C1_Witness ==
    /\ Repopulated
    /\ DistinctNames
    /\ Len(remote) = 2
    /\ Len(accessories) = 2
    /\ LastPass.unreg # <<>>

\* C2: a pass whose login failed has issued no GET /devices, has created no
\* accessory (so no PATCH can be issued for one), and while it is the latest
\* pass the tracked list is empty.
C2_LoginFailed ==
    \A p \in 1..Len(passes) :
        passes[p].login \in Failed =>
            /\ passes[p].gets = <<>>
            /\ passes[p].regCalls = <<>>
            /\ \A t \in 1..Len(toggles) : toggles[t].accessory.obj[1] # p
            /\ p = Len(passes) => accessories = <<>> /\ registered = {}

C2_Witness ==
    /\ Len(passes) = 2
    /\ passes[1].pc = "done"
    /\ passes[2].login \in Failed
    /\ passes[2].unreg # <<>>

\* C3 as stated: a finished toggle on an accessory with context.id k and value v
\* has issued exactly one PATCH, for device k with state v, whatever the outcome
\* of its login and of the PATCH.
C3_ExactlyOnePatch ==
    \A t \in 1..Len(toggles) :
        toggles[t].pc \in {"done", "rejected"} =>
            /\ Len(toggles[t].patches) = 1
            /\ toggles[t].patches[1].id = toggles[t].accessory.context.id
            /\ toggles[t].patches[1].state = toggles[t].value

\* C4: every SET event has had its completion callback invoked exactly once and
\* without an error argument, in every state of the toggle: login unanswered,
\* login failed, PATCH unanswered, PATCH failed or succeeded.
C4_CallbackOnce ==
    \A t \in 1..Len(toggles) : toggles[t].callbacks = <<NoError>>

C4_Witness ==
    \E t, u \in 1..Len(toggles) :
        /\ toggles[t].pc = "login"
        /\ toggles[t].callbacks = <<NoError>>
        /\ toggles[u].patch \in Failed
        /\ toggles[u].callbacks = <<NoError>>

\* C5 as stated: no reconciliation pass and no toggle ends with a thrown error or
\* a rejected promise.
C5_NoRejection ==
    /\ \A p \in 1..Len(passes) : passes[p].pc # "rejected"
    /\ \A t \in 1..Len(toggles) : toggles[t].pc # "rejected"

\* C6: the DID_FINISH_LAUNCHING handler hands the whole tracked list to the
\* host's unregister; the step that issues the pass's login has emptied the
\* tracked list and left none of those accessories registered; and the list
\* stays empty whether the login or the listing then fails or is still awaited.
C6_ClearFirst ==
    [][/\ Len(passes') = Len(passes) + 1 =>
            /\ passes'[Len(passes')].unreg = accessories
            /\ passes'[Len(passes')].logins > 0 =>
                   /\ accessories' = <<>>
                   /\ Range(accessories) \cap registered' = {}
       /\ (passes' # <<>> /\
           passes'[Len(passes')].pc \in {"login", "rejected", "listing", "listFailed"})
              => accessories' = <<>>]_vars

C6_Witness ==
    /\ passes # <<>>
    /\ LastPass.pc = "login"
    /\ LastPass.unreg # <<>>
    /\ accessories = <<>>
    /\ \E i \in 1..Len(LastPass.unreg) : LastPass.unreg[i].obj[1] = 0

\* C7: a pass whose login succeeded and whose listing failed has registered no
\* accessory, leaves zero tracked accessories, and the host holds none of the
\* accessories the Clear step removed.
C7_ListingFailed ==
    (passes # <<>> /\ LastPass.list \in Failed) =>
        /\ LastPass.login = "ok"
        /\ LastPass.regCalls = <<>>
        /\ accessories = <<>>
        /\ registered = {}

C7_Witness ==
    /\ passes # <<>>
    /\ LastPass.list \in Failed
    /\ LastPass.unreg # <<>>
    /\ remote # <<>>

\* C8: two complete passes in succession over the same remote devices leave the
\* tracked list with the same contents (displayName, identifier, context.id).
C8_Idempotent ==
    \A p \in 1..Len(passes) :
        (p > 1 /\ passes[p - 1].pc = "done" /\ passes[p].pc = "done") =>
            Contents(passes[p].result) = Contents(passes[p - 1].result)

C8_Witness ==
    /\ Len(passes) = 2
    /\ passes[1].pc = "done"
    /\ passes[2].pc = "done"
    /\ Len(passes[2].result) = 2
    /\ passes[2].result # passes[1].result

\* C9: every toggle and every pass that got past Clear has issued one login
\* request of its own, and each PATCH and each GET /devices carries the
\* credential returned for the login of the very toggle or pass that issued it.
C9_OwnSession ==
    /\ \A t \in 1..Len(toggles) :
           /\ toggles[t].logins = 1
           /\ \A i \in 1..Len(toggles[t].patches) :
                  toggles[t].patches[i].auth = Credential(<<"toggle", t>>)
    /\ \A p \in 1..Len(passes) :
           /\ passes[p].pc # "clearFailed" => passes[p].logins = 1
           /\ \A i \in 1..Len(passes[p].gets) :
                  passes[p].gets[i].auth = Credential(<<"pass", p>>)

C9_Witness ==
    /\ Len(passes) = 2
    /\ passes[1].gets # <<>>
    /\ passes[2].gets # <<>>
    /\ Len(toggles) = 2
    /\ toggles[1].patches # <<>>
    /\ toggles[2].patches # <<>>
    /\ toggles[2].pc = "patch"
    /\ LastPass.pc = "listing"

\* C10: after a pass that listed the devices, the i-th tracked accessory carries
\* the name and the id of the i-th listed device, and it was the i-th accessory
\* handed to the host's register.
C10_DiscoveryOrder ==
    Repopulated =>
        /\ Len(accessories) <= Len(remote)
        /\ Len(LastPass.regCalls) = Len(accessories)
        /\ \A i \in 1..Len(accessories) :
               /\ accessories[i].displayName = remote[i].name
               /\ accessories[i].context.id = remote[i].id
               /\ LastPass.regCalls[i] = accessories[i]

C10_Witness ==
    /\ Repopulated
    /\ Len(remote) = 3
    /\ Len(accessories) = 3
    /\ remote[1].id > remote[2].id
    /\ remote[1].name # remote[2].name

\* C11 as stated: whenever a login fails, by a non-success response or by a
\* network error without a response, signIn has logged the error exactly once
\* (the caller's console holds one entry, the one signIn wrote).
C11_LoggedOnce ==
    /\ \A p \in 1..Len(passes) :
           passes[p].login \in Failed => Len(passes[p].console) = 1
    /\ \A t \in 1..Len(toggles) :
           toggles[t].login \in Failed => Len(toggles[t].console) = 1

\* C12: no request is sent a second time: a pass that reached getDevices has
\* issued exactly one login request and at most one GET /devices, a toggle
\* exactly one login request and at most one PATCH, whatever was answered.
C12_NoRetry ==
    /\ \A p \in 1..Len(passes) :
           /\ passes[p].pc # "clearFailed" => passes[p].logins = 1
           /\ passes[p].logins <= 1
           /\ Len(passes[p].gets) <= 1
           /\ passes[p].pc \in {"listing", "listFailed", "done"}
                  => Len(passes[p].gets) = 1
    /\ \A t \in 1..Len(toggles) :
           /\ toggles[t].logins = 1
           /\ Len(toggles[t].patches) <= 1
           /\ toggles[t].pc \in {"patch", "done"} => Len(toggles[t].patches) = 1

C12_Witness ==
    /\ passes # <<>>
    /\ LastPass.list \in Failed
    /\ \E t, u \in 1..Len(toggles) :
           /\ toggles[t].login \in Failed
           /\ toggles[u].patch \in Failed

\* steps of the tracked list
RestoreStep == cache' # cache

ClearStep == Len(passes') = Len(passes) + 1

RepopulateStep ==
    \E p \in 1..Len(passes) : passes[p].pc = "listing" /\ passes'[p].pc = "done"

TrackedChanged == accessories' # accessories \/ registered' # registered

\* C13 as stated: the tracked list and the host's registrations change only in
\* the Clear step and in the Repopulate step.
C13_Original == [][TrackedChanged => (ClearStep \/ RepopulateStep)]_vars

\* C13 amended: they change only when the host restores a cached accessory
\* through configureAccessory, in the Clear step and in the Repopulate step; a
\* toggle (its SET event, its login, its PATCH, any failure of them) and a
\* failed login or listing of a pass leave both unchanged.
C13_Frame ==
    [][/\ TrackedChanged => (RestoreStep \/ ClearStep \/ RepopulateStep)
       /\ toggles' # toggles => ~TrackedChanged
       /\ \A p \in 1..Len(passes) :
              (passes'[p].pc \in {"rejected", "listFailed"} /\ passes'[p] # passes[p])
                  => ~TrackedChanged]_vars

C13_Witness ==
    /\ accessories # <<>>
    /\ registered = Range(accessories)
    /\ \E t, u \in 1..Len(toggles) :
           /\ toggles[t].login \in Failed
           /\ toggles[u].patch \in Failed

DistinctTrackedIds ==
    \A i, j \in 1..Len(accessories) :
        i # j => accessories[i].context.id # accessories[j].context.id

ClearsSucceeded ==
    passes # <<>> /\ \A p \in 1..Len(passes) : passes[p].pc # "clearFailed"

\* C14 as stated: after any sequence of passes whose listings have distinct ids
\* and whose Clear steps succeeded, also with a pass started while an earlier
\* one awaits a response, no two tracked accessories have the same context.id.
C14_Original == ClearsSucceeded => DistinctTrackedIds

\* C14 amended: the same, provided no pass was started while an earlier pass
\* was awaiting its login or listing response.
C14_Sequential ==
    (ClearsSucceeded /\ \A p \in 1..Len(passes) : ~passes[p].overlaps)
        => DistinctTrackedIds

C14_Witness ==
    /\ Len(passes) = 2
    /\ passes[1].pc = "done"
    /\ passes[2].pc = "done"
    /\ ~passes[2].overlaps
    /\ passes[2].unreg # <<>>
    /\ Len(accessories) >= 2

\* the callback of toggle t is invoked in this step
CallbackStep(t) ==
    /\ toggles'[t].callbacks # <<>>
    /\ t <= Len(toggles) => toggles'[t].callbacks # toggles[t].callbacks

\* C15 as stated: when the completion callback of a SET event runs, the PATCH of
\* that event has already been sent.
C15_Original ==
    [][\A t \in 1..Len(toggles') :
           CallbackStep(t) => Len(toggles'[t].patches) >= 1]_vars

\* C15 amended: the callback runs in the handler run of the SET event itself,
\* when the login request of that event has been sent and its answer is
\* awaited; the PATCH of the event has not been sent at that moment.
C15_CallbackBeforePatch ==
    [][\A t \in 1..Len(toggles') :
           /\ t > Len(toggles) => CallbackStep(t)
           /\ CallbackStep(t) =>
                  /\ t > Len(toggles)
                  /\ toggles'[t].logins = 1
                  /\ toggles'[t].pc = "login"
                  /\ toggles'[t].patches = <<>>]_vars

C15_Witness ==
    \E t, u \in 1..Len(toggles) :
        /\ toggles[t].pc = "login"
        /\ toggles[t].patches = <<>>
        /\ toggles[t].callbacks = <<NoError>>
        /\ toggles[u].pc = "done"
        /\ Len(toggles[u].patches) = 1

PassPending(p) == p <= Len(passes) /\ passes[p].pc \in {"login", "listing"}

PassFinished(p) ==
    p <= Len(passes) /\ passes[p].pc \in {"rejected", "listFailed", "done"}

TogglePending(t) == t <= Len(toggles) /\ toggles[t].pc \in {"login", "patch"}

ToggleFinished(t) == t <= Len(toggles) /\ toggles[t].pc \in {"rejected", "done"}

AllListedTracked ==
    /\ Len(accessories) = Len(remote)
    /\ \A i \in 1..Len(remote) :
           /\ accessories[i].displayName = remote[i].name
           /\ accessories[i].context.id = remote[i].id
           /\ accessories[i] \in registered

\* C16 as stated, its final state: a pass whose login and listing succeeded has
\* reached the state in which every listed device is tracked.
C16_Original ==
    Repopulated =>
        \A i \in 1..Len(remote) :
            \E j \in 1..Len(accessories) :
                accessories[j].context.id = remote[i].id

\* C16 amended: when every issued request is answered, every pass and every
\* toggle that awaits a response finishes (resolved or rejected), and a pass
\* whose login and listing succeeded over devices with pairwise distinct names
\* has every listed device tracked.
C16_Finishes ==
    /\ \A p \in 1..MaxPasses : PassPending(p) ~> PassFinished(p)
    /\ \A t \in 1..MaxToggles : TogglePending(t) ~> ToggleFinished(t)
    /\ [](Repopulated /\ DistinctNames => AllListedTracked)

C16_Witness ==
    /\ Repopulated
    /\ DistinctNames
    /\ AllListedTracked
    /\ Len(passes) = 2
    /\ passes[1].pc = "rejected"
    /\ \E t \in 1..Len(toggles) : ToggleFinished(t)

\* C17 as stated: between handler runs (every state here: addAccessory and
\* removeAccessories run inside one step), once the host has restored its
\* cache, an accessory is tracked if and only if the host holds it registered.
C17_InStep == cache = <<>> => Range(accessories) = registered

====
